---- MODULE Spec2Model ----
(***************************************************************************)
(* Request pipeline of the products REST API: CORS gate, JSON body,        *)
(* express-validator chain, handleInputErrors, product handler, Sequelize  *)
(* model on the "products" table.                                          *)
(*                                                                         *)
(* Each client slot carries one request through the middleware order of    *)
(* server.ts (cors -> express.json -> router) and through the handler,     *)
(* which is split at every await on the data layer.                        *)
(***************************************************************************)
EXTENDS Integers, Sequences, FiniteSets, TLC

(* ------------------------------ bounds -------------------------------- *)
\* largest id the table's sequence hands out or a client names
MaxId == 3
\* requests received in one behaviour
MaxRequests == 3

(* ------------------------------ values -------------------------------- *)
Clients == {"c1", "c2"}

\* process.env.FRONTEND_URL and the Origin header; "undefined" is the
\* JavaScript undefined (variable unset, header not sent)
undefined == "undefined"
Origins == {undefined, "http://front", "http://evil"}
FrontendUrls == {undefined, "http://front"}

Ops == {"getProducts", "getProductById", "createProduct",
        "updateProduct", "updateAvailability", "deleteProduct"}

\* route parameter :id as received (a string): either an integer literal
\* or something else
PathInt(n) == [isInt |-> TRUE, n |-> n]
NoPath == [isInt |-> FALSE, n |-> 0]
PathIds == {PathInt(n) : n \in 1..MaxId} \cup {NoPath}

\* JSON value of body.price: a number, or a value that is not numeric
Num(n) == [isNumeric |-> TRUE, n |-> n]
NotNumeric == [isNumeric |-> FALSE, n |-> 0]
Prices == {NotNumeric, Num(0), Num(50)}

Names == {"", "Mouse", "Mouse Pro"}

\* JSON value of body.availability: absent, a boolean, or anything else
Availabilities == {undefined, "true", "false", "maybe"}

\* body.id: 0 stands for "no id key in the body"
NoId == 0
BodyIds == 0..MaxId

EmptyBody == [name |-> "", price |-> NotNumeric, availability |-> undefined, id |-> NoId]

\* a row of table "products"; NoRow is the null that findByPk resolves to
NoRow == [id |-> 0, name |-> "", price |-> 0, availability |-> FALSE]

(* ------------------------- sequences of rows -------------------------- *)
Range(s) == {s[i] : i \in DOMAIN s}

Ids(table) == {table[i].id : i \in DOMAIN table}

\* SELECT ... ORDER BY id DESC: insertion of every row into a list kept
\* descending by id
RECURSIVE InsertDesc(_, _)
InsertDesc(row, sorted) ==
  IF sorted = <<>> THEN <<row>>
  ELSE IF row.id >= Head(sorted).id THEN <<row>> \o sorted
       ELSE <<Head(sorted)>> \o InsertDesc(row, Tail(sorted))

RECURSIVE OrderByIdDesc(_)
OrderByIdDesc(table) ==
  IF table = <<>> THEN <<>>
  ELSE InsertDesc(Head(table), OrderByIdDesc(Tail(table)))

(* --------------------------- validation ------------------------------- *)
\* one validator of a chain: the request field it reads, the rule, and the
\* message withMessage attaches to it
Check(field, rule, msg) == [field |-> field, rule |-> rule, msg |-> msg]

\* the custom validator written with >= in place of >
PriceCustomNonNegative(value) == value.n >= 0

\* .custom((value) => value > 0)
PriceCustom(value) == value.n > 0

\* outcome of one validator on the request
Passes(rule, path, body) ==
  CASE rule = "isInt"      -> path.isInt
    [] rule = "notEmpty"   -> body.name # ""
    [] rule = "isNumeric"  -> body.price.isNumeric
    [] rule = "custom"     -> PriceCustom(body.price)
    [] rule = "isBoolean"  -> body.availability \in {"true", "false"}

\* router.post("/", body("name")..., body("price")..., handleInputErrors, createProduct)
CreateChain ==
  << Check("name", "notEmpty", "El nombre de Producto no puede ir vacio"),
     Check("price", "isNumeric", "Valor no valido"),
     Check("price", "custom", "Precio no valido") >>

\* param("id").isInt() in front of the handlers that take /:id
IdChain == << Check("id", "isInt", "ID no valido") >>

\* router.put("/:id", ...): id, name, price and availability
UpdateChain ==
  IdChain \o CreateChain
    \o << Check("availability", "isBoolean", "Valor para disponibilidad no valido") >>

Chain(op) ==
  CASE op = "getProducts"        -> <<>>
    [] op = "createProduct"      -> CreateChain
    [] op = "updateProduct"      -> UpdateChain
    [] op \in {"getProductById", "updateAvailability", "deleteProduct"} -> IdChain

\* validationResult(req).array(): every validator of the chain runs, the
\* failing ones are collected in declaration order
ValidationResult(op, path, body) ==
  SelectSeq(Chain(op), LAMBDA c : ~Passes(c.rule, path, body))

\* handleInputErrors with the test on errors.isEmpty() inverted
HandleInputErrorsInverted(errors) == errors = <<>>

\* handleInputErrors: TRUE when it answers 400 itself, FALSE when it calls next()
HandleInputErrorsResponds(errors) == errors # <<>>

(* ------------------------------ CORS ---------------------------------- *)
\* corsOptions.origin: callback(null, true) iff origin === process.env.FRONTEND_URL
CorsAllows(origin, frontendUrl) == origin = frontendUrl

(* --------------------------- data layer ------------------------------- *)
\* Product.findByPk(id): the row with that primary key, or null
FindByPk(table, path) ==
  IF path.n \in Ids(table)
  THEN CHOOSE row \in Range(table) : row.id = path.n
  ELSE NoRow

\* a not-found test that never fires (comparison with undefined where
\* findByPk resolves to null)
NotFoundNever(product) == FALSE

\* if (!product) ...
NotFound(product) == product = NoRow

\* findAll without its order option: the rows as the table holds them
FindAllUnordered(table) == table

\* Product.findAll({ order: [["id", "DESC"]] })
FindAll(table) == OrderByIdDesc(table)

\* column availability: BOOLEAN with @Default(true)
AvailabilityColumn(value) ==
  IF value = undefined THEN TRUE ELSE value = "true"

\* the primary key of a new row: the id key of the values when there is
\* one, the next value of the table's sequence otherwise
NewId(body, seq) == IF body.id # NoId THEN body.id ELSE seq

\* the primary-key constraint of table "products"
PrimaryKeyFree(table, id) == id \notin Ids(table)

\* Product.create(req.body): build a row from the values and INSERT it
BuildRow(body, seq) ==
  [id |-> NewId(body, seq), name |-> body.name, price |-> body.price.n,
   availability |-> AvailabilityColumn(body.availability)]

\* set(values) that also assigns the primary key the values name
SetValuesWithKey(product, body) ==
  [product EXCEPT !.id = IF body.id # NoId THEN body.id ELSE product.id,
                  !.name = body.name, !.price = body.price.n,
                  !.availability = body.availability = "true"]

\* product.set(values): every attribute named in the values is assigned,
\* except the primary key of an instance that already has one
SetValues(product, body) ==
  [product EXCEPT !.name = body.name, !.price = body.price.n,
                  !.availability = AvailabilityColumn(body.availability)]

\* instance.changed(): the attributes whose value differs from the one read
Changed(product, previous) ==
  {f \in {"id", "name", "price", "availability"} : product[f] # previous[f]}

\* save() that issues its UPDATE whether or not an attribute changed
SaveIssuesUpdateAlways(changed) == TRUE

\* instance.save(): UPDATE products SET <changed attributes> WHERE id = <key the
\* instance was read under>; no statement at all when nothing changed
SaveIssuesUpdate(changed) == changed # {}

\* an UPDATE that negates the stored flag (SET availability = NOT availability)
\* instead of writing the value of the instance
SaveRowRelative(row, product, changed) ==
  [id |-> IF "id" \in changed THEN product.id ELSE row.id,
   name |-> IF "name" \in changed THEN product.name ELSE row.name,
   price |-> IF "price" \in changed THEN product.price ELSE row.price,
   availability |-> IF "availability" \in changed THEN ~row.availability
                    ELSE row.availability]

SaveRow(row, product, changed) ==
  [id |-> IF "id" \in changed THEN product.id ELSE row.id,
   name |-> IF "name" \in changed THEN product.name ELSE row.name,
   price |-> IF "price" \in changed THEN product.price ELSE row.price,
   availability |-> IF "availability" \in changed THEN product.availability
                    ELSE row.availability]

\* save() whose UPDATE never reaches the table
SaveSkipped(table, product, previous) == table

Save(table, product, previous) ==
  [i \in DOMAIN table |->
     IF table[i].id = previous.id
     THEN SaveRow(table[i], product, Changed(product, previous))
     ELSE table[i]]

\* product.destroy(): DELETE FROM products WHERE id = product.id
Destroy(table, product) == SelectSeq(table, LAMBDA row : row.id # product.id)

(* ------------------------------ state --------------------------------- *)
VARIABLES
  FRONTEND_URL,  \* process.env.FRONTEND_URL
  rows,          \* table "products", in insertion order
  seq,           \* next value of the table's id sequence
  req,           \* per client: the request in flight and where it stands
  received,      \* requests received so far
  destroyed      \* ids removed by a delete that answered 200

vars == <<FRONTEND_URL, rows, seq, req, received, destroyed>>

\* res.status(..).json(..): data carries a record, list an array of records,
\* text a string payload, errors the validation errors, error the error string
NoResp == [status |-> 0, data |-> NoRow, list |-> <<>>, text |-> "",
           errors |-> <<>>, error |-> ""]
DataResp(status, row) == [NoResp EXCEPT !.status = status, !.data = row]
ListResp(list) == [NoResp EXCEPT !.status = 200, !.list = list]
TextResp(text) == [NoResp EXCEPT !.status = 200, !.text = text]
ErrorsResp(errors) == [NoResp EXCEPT !.status = 400, !.errors = errors]
NotFoundResp == [NoResp EXCEPT !.status = 404, !.error = "Producto No Encontrado"]
\* an error that reaches the boundary: passed to next(err) or thrown by the data layer
FaultResp(error) == [NoResp EXCEPT !.status = 500, !.error = error]

Idle ==
  [pc |-> "idle", origin |-> undefined, op |-> "getProducts", path |-> NoPath,
   body |-> EmptyBody, errors |-> <<>>, product |-> NoRow, previous |-> NoRow,
   resp |-> NoResp, invoked |-> FALSE, writes |-> 0]

\* requests a client can send to each route
Bodies(names, prices, avails, ids) ==
  {[name |-> n, price |-> p, availability |-> a, id |-> i] :
     n \in names, p \in prices, a \in avails, i \in ids}

Inputs(op) ==
  CASE op = "getProducts" -> {[path |-> NoPath, body |-> EmptyBody]}
    [] op \in {"getProductById", "deleteProduct"} ->
         {[path |-> p, body |-> EmptyBody] : p \in PathIds}
    [] op = "updateAvailability" ->
         {[path |-> p, body |-> b] : p \in PathIds,
            b \in Bodies({""}, {NotNumeric}, {undefined, "true", "false"}, {NoId})}
    [] op = "createProduct" ->
         {[path |-> NoPath, body |-> b] :
            b \in Bodies(Names, Prices, {undefined, "true", "false"}, BodyIds)}
    [] op = "updateProduct" ->
         {[path |-> p, body |-> b] : p \in PathIds,
            b \in Bodies(Names, Prices, Availabilities, {NoId, MaxId})}

Init ==
  /\ FRONTEND_URL \in FrontendUrls
  /\ rows = <<>>
  /\ seq = 1
  /\ req = [r \in Clients |-> Idle]
  /\ received = 0
  /\ destroyed = {}

(* ----------------------------- middleware ----------------------------- *)
\* a request arrives with its method, route and Origin header
Receive(r) ==
  /\ req[r].pc = "idle"
  /\ received < MaxRequests
  /\ \E origin \in Origins, op \in Ops :
       req' = [req EXCEPT ![r] = [Idle EXCEPT !.pc = "cors", !.origin = origin, !.op = op]]
  /\ received' = received + 1
  /\ UNCHANGED <<FRONTEND_URL, rows, seq, destroyed>>

\* server.use(cors(corsOptions))
Cors(r) ==
  /\ req[r].pc = "cors"
  /\ req' = [req EXCEPT ![r] =
       IF CorsAllows(req[r].origin, FRONTEND_URL)
       THEN [@ EXCEPT !.pc = "validate"]
       ELSE [@ EXCEPT !.pc = "done", !.resp = FaultResp("Error de CORS")]]
  /\ UNCHANGED <<FRONTEND_URL, rows, seq, received, destroyed>>

\* express.json() and the route's validation chain, on the parameters and
\* body the request carries
Validate(r, routeInputs) ==
  /\ req[r].pc = "validate"
  /\ \E in \in routeInputs[req[r].op] :
       req' = [req EXCEPT ![r] =
         [@ EXCEPT !.pc = "handleInputErrors", !.path = in.path, !.body = in.body,
                   !.errors = ValidationResult(req[r].op, in.path, in.body)]]
  /\ UNCHANGED <<FRONTEND_URL, rows, seq, received, destroyed>>

\* handleInputErrors(req, res, next)
HandleInputErrors(r) ==
  /\ req[r].pc = "handleInputErrors"
  /\ req' = [req EXCEPT ![r] =
       IF HandleInputErrorsResponds(req[r].errors)
       THEN [@ EXCEPT !.pc = "done", !.resp = ErrorsResp(req[r].errors)]
       ELSE [@ EXCEPT !.pc = "handler"]]
  /\ UNCHANGED <<FRONTEND_URL, rows, seq, received, destroyed>>

(* ------------------------------ handlers ------------------------------ *)
\* getProducts: findAll, then res.json({ data: products })
GetProducts(r) ==
  /\ req[r].pc = "handler"
  /\ req[r].op = "getProducts"
  /\ req' = [req EXCEPT ![r] =
       [@ EXCEPT !.pc = "done", !.invoked = TRUE, !.resp = ListResp(FindAll(rows))]]
  /\ UNCHANGED <<FRONTEND_URL, rows, seq, received, destroyed>>

\* getProductById: findByPk, 404 when absent, else res.json({ data: product })
GetProductById(r) ==
  /\ req[r].pc = "handler"
  /\ req[r].op = "getProductById"
  /\ LET product == FindByPk(rows, req[r].path) IN
       req' = [req EXCEPT ![r] =
         [@ EXCEPT !.pc = "done", !.invoked = TRUE, !.product = product,
                   !.resp = IF NotFound(product) THEN NotFoundResp
                            ELSE DataResp(200, product)]]
  /\ UNCHANGED <<FRONTEND_URL, rows, seq, received, destroyed>>

\* createProduct: Product.create(req.body), then res.status(201).json({ data: product });
\* an INSERT the primary key rejects throws and leaves the table as it was
CreateProduct(r) ==
  /\ req[r].pc = "handler"
  /\ req[r].op = "createProduct"
  /\ req[r].body.id # NoId \/ seq <= MaxId
  /\ LET product == BuildRow(req[r].body, seq)
         inserted == PrimaryKeyFree(rows, product.id) IN
       /\ rows' = IF inserted THEN Append(rows, product) ELSE rows
       /\ req' = [req EXCEPT ![r] =
            [@ EXCEPT !.pc = "done", !.invoked = TRUE,
                      !.product = IF inserted THEN product ELSE NoRow,
                      !.writes = IF inserted THEN @ + 1 ELSE @,
                      !.resp = IF inserted THEN DataResp(201, product)
                               ELSE FaultResp("SequelizeUniqueConstraintError")]]
  /\ seq' = IF req[r].body.id = NoId THEN seq + 1 ELSE seq
  /\ UNCHANGED <<FRONTEND_URL, received, destroyed>>

\* first await of updateProduct, updateAvailability and deleteProduct:
\* findByPk, 404 when absent
FindProduct(r) ==
  /\ req[r].pc = "handler"
  /\ req[r].op \in {"updateProduct", "updateAvailability", "deleteProduct"}
  /\ LET product == FindByPk(rows, req[r].path) IN
       req' = [req EXCEPT ![r] =
         IF NotFound(product)
         THEN [@ EXCEPT !.pc = "done", !.invoked = TRUE, !.resp = NotFoundResp]
         ELSE [@ EXCEPT !.pc = "found", !.invoked = TRUE, !.product = product,
                        !.previous = product]]
  /\ UNCHANGED <<FRONTEND_URL, rows, seq, received, destroyed>>

\* updateProduct: await product.update(req.body)
UpdateProduct(r) ==
  /\ req[r].pc = "found"
  /\ req[r].op = "updateProduct"
  /\ LET product == SetValues(req[r].product, req[r].body)
         issued == SaveIssuesUpdate(Changed(product, req[r].previous)) IN
       /\ rows' = IF issued THEN Save(rows, product, req[r].previous) ELSE rows
       /\ req' = [req EXCEPT ![r] =
            [@ EXCEPT !.pc = "updated", !.product = product, !.previous = product,
                      !.writes = IF issued THEN @ + 1 ELSE @]]
  /\ UNCHANGED <<FRONTEND_URL, seq, received, destroyed>>

\* updateProduct: await product.save(), then res.json({ data: product })
SaveProduct(r) ==
  /\ req[r].pc = "updated"
  /\ LET issued == SaveIssuesUpdate(Changed(req[r].product, req[r].previous)) IN
       /\ rows' = IF issued THEN Save(rows, req[r].product, req[r].previous) ELSE rows
       /\ req' = [req EXCEPT ![r] =
            [@ EXCEPT !.pc = "done", !.previous = req[r].product,
                      !.writes = IF issued THEN @ + 1 ELSE @,
                      !.resp = DataResp(200, req[r].product)]]
  /\ UNCHANGED <<FRONTEND_URL, seq, received, destroyed>>

\* product.availability = !product.dataValues.availability
Toggle(product) == [product EXCEPT !.availability = ~product.availability]

\* updateAvailability: flip the flag of the instance, await product.save(),
\* then res.json({ data: product })
UpdateAvailability(r) ==
  /\ req[r].pc = "found"
  /\ req[r].op = "updateAvailability"
  /\ LET product == Toggle(req[r].product)
         issued == SaveIssuesUpdate(Changed(product, req[r].previous)) IN
       /\ rows' = IF issued THEN Save(rows, product, req[r].previous) ELSE rows
       /\ req' = [req EXCEPT ![r] =
            [@ EXCEPT !.pc = "done", !.product = product, !.previous = product,
                      !.writes = IF issued THEN @ + 1 ELSE @,
                      !.resp = DataResp(200, product)]]
  /\ UNCHANGED <<FRONTEND_URL, seq, received, destroyed>>

\* deleteProduct: await product.destroy(), then res.json({ data: "Producto Eliminado" })
DeleteProduct(r) ==
  /\ req[r].pc = "found"
  /\ req[r].op = "deleteProduct"
  /\ rows' = Destroy(rows, req[r].product)
  /\ req' = [req EXCEPT ![r] =
       [@ EXCEPT !.pc = "done", !.writes = @ + 1,
                 !.resp = TextResp("Producto Eliminado")]]
  /\ destroyed' = destroyed \cup {req[r].product.id}
  /\ UNCHANGED <<FRONTEND_URL, seq, received>>

\* the response has been sent; the connection serves the next request
Finish(r) ==
  /\ req[r].pc = "done"
  /\ req' = [req EXCEPT ![r] = Idle]
  /\ UNCHANGED <<FRONTEND_URL, rows, seq, received, destroyed>>

(* --------------------------- specifications --------------------------- *)
Serve(r, routeInputs) ==
  \/ Receive(r)
  \/ Cors(r)
  \/ Validate(r, routeInputs)
  \/ HandleInputErrors(r)
  \/ GetProducts(r)
  \/ GetProductById(r)
  \/ CreateProduct(r)
  \/ FindProduct(r)
  \/ UpdateProduct(r)
  \/ SaveProduct(r)
  \/ UpdateAvailability(r)
  \/ DeleteProduct(r)
  \/ Finish(r)

\* requests served one after the other
Next == Serve("c1", [op \in Ops |-> Inputs(op)])

Spec == Init /\ [][Next]_vars

\* requests of several clients in flight at once, each suspended at its
\* awaits; the table already holds a product
ConcInputs(op) ==
  CASE op = "getProducts" -> {[path |-> NoPath, body |-> EmptyBody]}
    [] op \in {"getProductById", "deleteProduct"} ->
         {[path |-> p, body |-> EmptyBody] : p \in PathIds}
    [] op = "updateAvailability" ->
         {[path |-> p, body |-> b] : p \in PathIds,
            b \in Bodies({""}, {NotNumeric}, {undefined, "true"}, {NoId})}
    [] op = "createProduct" ->
         {[path |-> NoPath, body |-> b] :
            b \in Bodies({"Mouse"}, {Num(0), Num(50)}, {undefined}, {NoId})}
    [] op = "updateProduct" ->
         {[path |-> p, body |-> b] : p \in PathIds,
            b \in Bodies({"Mouse Pro"}, {Num(50)}, {"true", "false"}, {NoId})}

ConcInit ==
  /\ FRONTEND_URL = "http://front"
  /\ rows = << [id |-> 1, name |-> "Mouse", price |-> 50, availability |-> TRUE] >>
  /\ seq = 2
  /\ req = [r \in Clients |-> Idle]
  /\ received = 0
  /\ destroyed = {}

ConcNext == \E r \in Clients : Serve(r, [op \in Ops |-> ConcInputs(op)])

ConcSpec == ConcInit /\ [][ConcNext]_vars

(* ------------------------------ claims -------------------------------- *)
IdOps == {"getProductById", "updateProduct", "updateAvailability", "deleteProduct"}
BodyOps == {"createProduct", "updateProduct"}

\* the fields of a request that break a rule of the validation table
Violations(q) ==
  (IF q.op \in IdOps /\ ~q.path.isInt THEN {"id"} ELSE {})
  \cup (IF q.op \in BodyOps /\ q.body.name = "" THEN {"name"} ELSE {})
  \cup (IF q.op \in BodyOps /\ (~q.body.price.isNumeric \/ q.body.price.n <= 0)
        THEN {"price"} ELSE {})
  \cup (IF q.op = "updateProduct" /\ q.body.availability \notin {"true", "false"}
        THEN {"availability"} ELSE {})

ErrorFields(errors) == {errors[i].field : i \in DOMAIN errors}

\* client r leaves the validation stage in this step
LeavesValidation(r) ==
  req[r].pc = "handleInputErrors" /\ req'[r].pc # "handleInputErrors"

\* C1: a request that breaks a validation rule is answered 400 with
\* { errors } naming every field in violation, its handler never runs and the
\* table is left as it was; a request that breaks none is passed to its
\* handler without a response from the validation stage.
C1_ValidationGate ==
  /\ [][\A r \in Clients : LeavesValidation(r) =>
          /\ rows' = rows
          /\ IF Violations(req[r]) # {}
             THEN /\ req'[r].pc = "done"
                  /\ req'[r].resp.status = 400
                  /\ ErrorFields(req'[r].resp.errors) = Violations(req[r])
                  /\ ~req'[r].invoked
             ELSE /\ req'[r].pc = "handler"
                  /\ req'[r].resp = NoResp]_vars
  /\ [](\A r \in Clients : req[r].resp.status = 400 =>
          ~req[r].invoked /\ req[r].writes = 0)

\* a create answered 400 for an empty name and a price that is not positive,
\* with a product already stored
C1_Witness ==
  \E r \in Clients :
    /\ req[r].pc = "done" /\ req[r].op = "createProduct"
    /\ req[r].resp.status = 400
    /\ ErrorFields(req[r].resp.errors) = {"name", "price"}
    /\ req[r].body.price = Num(0)
    /\ rows # <<>>

\* client r runs the data-layer call of createProduct in this step
CreateStep(r) ==
  req[r].pc = "handler" /\ req[r].op = "createProduct" /\ req'[r].pc = "done"

\* C2: a create whose name is not empty and whose price is numeric and
\* positive is answered 201 with { data: record }; the record has an id the
\* table did not hold before, availability true when the body gave none, and
\* the table afterwards is the table before plus that record.
C2_ValidCreate ==
  [][\A r \in Clients : CreateStep(r) /\ Violations(req[r]) = {} =>
       /\ req'[r].resp.status = 201
       /\ req'[r].resp.data.id \in 1..MaxId
       /\ req'[r].resp.data.id \notin Ids(rows)
       /\ req'[r].resp.data.name = req[r].body.name
       /\ req'[r].resp.data.price = req[r].body.price.n
       /\ req[r].body.availability = undefined => req'[r].resp.data.availability
       /\ rows' = Append(rows, req'[r].resp.data)]_vars

\* client r runs findByPk of a handler that takes /:id in this step
FindStep(r) ==
  req[r].pc = "handler" /\ req[r].op \in IdOps /\ req'[r].pc # "handler"

\* C4: GET, PUT, PATCH and DELETE on an integer id with no stored record
\* answer 404 { error: "Producto No Encontrado" } and write nothing, whether
\* the id never existed or was deleted before.
C4_NotFound ==
  /\ [][\A r \in Clients : FindStep(r) /\ req[r].path.n \notin Ids(rows) =>
          /\ req'[r].pc = "done"
          /\ req'[r].resp.status = 404
          /\ req'[r].resp.error = "Producto No Encontrado"
          /\ req'[r].resp.data = NoRow
          /\ req'[r].writes = 0
          /\ rows' = rows]_vars
  /\ [](\A r \in Clients : req[r].resp.status = 404 =>
          req[r].pc = "done" /\ req[r].writes = 0)

\* a DELETE answered 404 on an id that an earlier DELETE removed
C4_Witness ==
  \E r \in Clients :
    /\ req[r].pc = "done" /\ req[r].op = "deleteProduct"
    /\ req[r].resp.status = 404
    /\ req[r].path.n \in destroyed

StrictlyDescending(list) ==
  \A i \in DOMAIN list : \A j \in DOMAIN list : i < j => list[i].id > list[j].id

\* C5: GET / answers 200 with { data } holding exactly the stored records,
\* ordered by id strictly descending, whatever the order of the table.
C5_ListDescending ==
  \A r \in Clients :
    req[r].pc = "done" /\ req[r].op = "getProducts" /\ req[r].invoked =>
      /\ req[r].resp.status = 200
      /\ StrictlyDescending(req[r].resp.list)
      /\ Range(req[r].resp.list) = Range(rows)
      /\ Len(req[r].resp.list) = Len(rows)

\* a list of two records answered from a table that holds them in ascending order
C5_Witness ==
  \E r \in Clients :
    /\ req[r].pc = "done" /\ req[r].op = "getProducts" /\ req[r].resp.status = 200
    /\ Len(req[r].resp.list) = 2
    /\ Len(rows) = 2
    /\ rows[1].id < rows[2].id

\* client r passes the CORS gate in this step
CorsStep(r) == req[r].pc = "cors" /\ req'[r].pc # "cors"

\* C6: the CORS gate lets a request through to the routes exactly when its
\* origin is the configured trusted origin; a request from anywhere else, or
\* when no trusted origin is configured, is rejected and no handler runs.
C6_OnlyFrontendUrl ==
  /\ [][\A r \in Clients : CorsStep(r) =>
          IF FRONTEND_URL # undefined /\ req[r].origin = FRONTEND_URL
          THEN req'[r].pc = "validate"
          ELSE req'[r].pc = "done" /\ req'[r].resp.status = 500]_vars
  /\ [](\A r \in Clients : req[r].resp.error = "Error de CORS" => ~req[r].invoked)

\* C7: every stored product has a price above zero, and a create or full
\* update whose price is not numeric or not positive never reaches its
\* handler or the data layer.
C7_PricePositive ==
  /\ \A i \in DOMAIN rows : rows[i].price > 0
  /\ \A r \in Clients :
       /\ req[r].pc \in {"handler", "found", "updated"}
            \/ (req[r].pc = "done" /\ req[r].resp.error # "Error de CORS")
       /\ req[r].op \in BodyOps
       /\ ~req[r].body.price.isNumeric \/ req[r].body.price.n <= 0
       => /\ req[r].resp.status = 400
          /\ ~req[r].invoked
          /\ req[r].writes = 0

\* a full update with price 0 answered 400 while a product is stored
C7_Witness ==
  \E r \in Clients :
    /\ req[r].pc = "done" /\ req[r].op = "updateProduct"
    /\ req[r].body.price = Num(0) /\ req[r].path.n \in Ids(rows)
    /\ req[r].resp.status = 400

\* client r runs a data-layer write of updateProduct or updateAvailability
\* in this step
UpdateOrToggleStep(r) ==
  /\ req[r].op \in {"updateProduct", "updateAvailability"}
  /\ req[r].pc \in {"found", "updated"}
  /\ req'[r].pc # req[r].pc

\* C8: stored products have pairwise distinct ids, none of them null, and no
\* full update or toggle changes the id of a stored record, whatever id the
\* request body names.
C8_IdUniqueImmutable ==
  /\ [](/\ Cardinality(Ids(rows)) = Len(rows)
        /\ Ids(rows) \subseteq 1..MaxId)
  /\ [][\A r \in Clients : UpdateOrToggleStep(r) =>
          /\ Len(rows') = Len(rows)
          /\ \A i \in DOMAIN rows : rows'[i].id = rows[i].id]_vars

\* a full update answered 200 whose body named another id than its record's
C8_Witness ==
  \E r \in Clients :
    /\ req[r].pc = "done" /\ req[r].op = "updateProduct"
    /\ req[r].resp.status = 200
    /\ req[r].body.id # NoId /\ req[r].body.id # req[r].path.n
    /\ req[r].path.n \in Ids(rows)

\* the request of client r was answered with the success status of its route
Succeeded(q) ==
  /\ q.pc = "done"
  /\ q.resp.status = IF q.op = "createProduct" THEN 201 ELSE 200

\* C9 as stated: a successful create, full update, toggle or delete has
\* written exactly once when it answers; a list, a get-by-id and a 404 have
\* written nothing.
C9_ExactlyOneMutation ==
  \A r \in Clients :
    req[r].pc = "done" /\ req[r].invoked =>
      req[r].writes =
        IF Succeeded(req[r]) /\ req[r].op \notin {"getProducts", "getProductById"}
        THEN 1 ELSE 0

\* the body of the full update of client r names a value its record does not have
UpdateChanges(q) ==
  \/ q.body.name # q.product.name
  \/ q.body.price.n # q.product.price
  \/ (q.body.availability = "true") # q.product.availability

\* C9 as amended: no request writes more than once; a successful create,
\* toggle or delete writes exactly once, a successful full update writes once
\* when its body changes a field of the record and not at all when it changes
\* none, and its trailing save never writes; a list, a get-by-id and a 404
\* write nothing.
C9_AtMostOneMutation ==
  /\ [](\A r \in Clients :
          /\ req[r].writes <= 1
          /\ req[r].pc = "done" /\ req[r].invoked /\ req[r].op # "updateProduct" =>
               req[r].writes =
                 IF Succeeded(req[r]) /\ req[r].op \notin {"getProducts", "getProductById"}
                 THEN 1 ELSE 0
          /\ req[r].pc = "done" /\ req[r].op = "updateProduct"
               /\ req[r].resp.status # 200 => req[r].writes = 0)
  /\ [][\A r \in Clients :
          /\ req[r].op = "updateProduct" /\ req[r].pc = "found" /\ req'[r].pc = "updated" =>
               req'[r].writes = IF UpdateChanges(req[r]) THEN 1 ELSE 0
          /\ req[r].pc = "updated" /\ req'[r].pc = "done" =>
               req'[r].writes = req[r].writes /\ req'[r].resp.status = 200]_vars

\* a full update answered 200 after one write, and its trailing save done
C9_Witness ==
  \E r \in Clients :
    /\ req[r].pc = "done" /\ req[r].op = "updateProduct"
    /\ req[r].resp.status = 200
    /\ req[r].writes = 1

\* client r runs the save of updateAvailability in this step
ToggleStep(r) ==
  req[r].op = "updateAvailability" /\ req[r].pc = "found" /\ req'[r].pc = "done"

\* the table after the toggle of client r is the table before with the
\* availability of record /:id negated and nothing else touched
NegatedInPlace(r) ==
  /\ req[r].path.n \in Ids(rows)
  /\ Len(rows') = Len(rows)
  /\ \A i \in DOMAIN rows :
       rows'[i] = IF rows[i].id = req[r].path.n
                  THEN [rows[i] EXCEPT !.availability = ~rows[i].availability]
                  ELSE rows[i]

\* C3 as stated: every PATCH /:id on a record it found answers 200 and leaves
\* the stored availability negated, with id, name, price and all other
\* records as they were.
C3_ToggleNegates ==
  [][\A r \in Clients : ToggleStep(r) =>
       req'[r].resp.status = 200 /\ NegatedInPlace(r)]_vars

\* C3 as amended: a PATCH /:id whose record is still stored as the handler
\* read it (no other request changed or deleted it between this request's
\* findByPk and its save) answers 200 with the record, and leaves the stored
\* availability negated whatever the body says, with id, name, price and all
\* other records as they were.
C3_ToggleNegatesUndisturbed ==
  [][\A r \in Clients :
       ToggleStep(r) /\ FindByPk(rows, req[r].path) = req[r].previous =>
         /\ req'[r].resp.status = 200
         /\ NegatedInPlace(r)
         /\ req'[r].resp.data = FindByPk(rows', req[r].path)]_vars

\* a toggle whose body asked for availability true, answered 200 with the
\* stored record now unavailable
C3_Witness ==
  \E r \in Clients :
    /\ req[r].pc = "done" /\ req[r].op = "updateAvailability"
    /\ req[r].resp.status = 200
    /\ req[r].body.availability = "true"
    /\ ~req[r].resp.data.availability
    /\ FindByPk(rows, req[r].path) = req[r].resp.data

\* clients r and q have both answered 200 to a PATCH on the same id with the
\* same availability in the record they return
SameToggleAnswer(r, q) ==
  /\ r # q
  /\ req[r].pc = "done" /\ req[q].pc = "done"
  /\ req[r].op = "updateAvailability" /\ req[q].op = "updateAvailability"
  /\ req[r].resp.status = 200 /\ req[q].resp.status = 200
  /\ req[r].path = req[q].path
  /\ req[r].resp.data.availability = req[q].resp.data.availability

\* C10: two PATCH requests on the same record that are in flight together
\* and answer 200 with the same flipped availability leave the record with
\* that availability: both read the same value and the flag is negated once,
\* not twice.
C10_LostUpdate ==
  \A r \in Clients : \A q \in Clients :
    SameToggleAnswer(r, q) /\ req[r].path.n \in Ids(rows) =>
      FindByPk(rows, req[r].path).availability = req[r].resp.data.availability

\* the only two requests received are PATCHes on the product stored at the
\* start (available); both answered 200 with availability false and the
\* record is unavailable: one of the two negations is lost
C10_Witness ==
  /\ received = 2
  /\ \E r \in Clients : \E q \in Clients :
       /\ SameToggleAnswer(r, q)
       /\ req[r].path.n = seq - 1
       /\ ~req[r].resp.data.availability
       /\ ~FindByPk(rows, req[r].path).availability

====
